---- MODULE Spec2Model ----
(***************************************************************************)
(* Conway's Game of Life on the GPU: the double-buffered compute pipeline  *)
(* (GameComputePipeline and its compute shader), and the per-frame chain   *)
(* acquire -> compute -> render -> present of the event loop.              *)
(***************************************************************************)
EXTENDS Integers, Sequences, FiniteSets, TLC

(***************************************************************************)
(* Bounds of the model.                                                    *)
(***************************************************************************)
\* compute() calls explored on one engine instance
MaxSteps == 2

(***************************************************************************)
(* Program constants.                                                      *)
(***************************************************************************)
\* layout(local_size_x = 8, local_size_y = 8, local_size_z = 1)
LocalSize == 8

\* the colours main passes to compute(): red for live, black for dead
LifeColor == <<1, 0, 0, 1>>
DeadColor == <<0, 0, 0, 1>>

\* a texel no imageStore has written yet (StorageImage memory is not cleared)
Unwritten == <<>>

\* "no buffer": the null handle
NoId == 0 - 1

(***************************************************************************)
(* Grid geometry.  A position is <<x, y>>, dims is <<width, height>>.      *)
(***************************************************************************)
Width(dims) == dims[1]
Height(dims) == dims[2]
NumCells(dims) == Width(dims) * Height(dims)
Indices(dims) == 0 .. (NumCells(dims) - 1)

\* int get_index(ivec2 pos) { return pos.y * dims.x + pos.x; }
get_index(pos, dims) == pos[2] * Width(dims) + pos[1]

\* the position whose get_index is i (0 <= i < width * height)
PosOf(i, dims) == <<i % Width(dims), i \div Width(dims)>>

\* positions inside the width x height rectangle
InRect(pos, dims) ==
    /\ 0 <= pos[1] /\ pos[1] < Width(dims)
    /\ 0 <= pos[2] /\ pos[2] < Height(dims)

\* .dispatch([img_dims[0] / 8, img_dims[1] / 8, 1]): the work-group counts
GroupCounts(dims) == <<Width(dims) \div LocalSize, Height(dims) \div LocalSize>>

\* gl_GlobalInvocationID.xy of every invocation of a dispatch of groups
Invocations(groups) ==
    { <<x, y>> : x \in 0 .. (groups[1] * LocalSize - 1),
                 y \in 0 .. (groups[2] * LocalSize - 1) }

\* index = get_index(pos) of every invocation of a dispatch of groups
CoveredIndices(groups, dims) == { get_index(p, dims) : p \in Invocations(groups) }

\* up_left, up, up_right, right, down_right, down, down_left, left
Offsets ==
    << <<0 - 1, 1>>, <<0, 1>>, <<1, 1>>, <<1, 0>>,
       <<1, 0 - 1>>, <<0, 0 - 1>>, <<0 - 1, 0 - 1>>, <<0 - 1, 0>> >>

Plus(pos, d) == <<pos[1] + d[1], pos[2] + d[2]>>

(***************************************************************************)
(* Buffer reads.  The shader indexes life_out[] with the int get_index     *)
(* returns and checks no bound.  An index outside the buffer (negative, or *)
(* >= width * height) is an out-of-bounds read: its value is not defined,  *)
(* and oob is the value such reads return in one dispatch.                 *)
(***************************************************************************)
InBuffer(i, dims) == 0 <= i /\ i < NumCells(dims)

Load(buf, i, dims, oob) == IF InBuffer(i, dims) THEN buf[i] ELSE oob

OobValues == {0, 1}

\* alive_count of the invocation at pos, reading the neighbours from nbr
AliveCount(nbr, pos, dims, oob) ==
    Cardinality({ k \in 1 .. 8 :
        Load(nbr, get_index(Plus(pos, Offsets[k]), dims), dims, oob) = 1 })

\* (mutation) compute_life() storing the alive count where a cell is born
LifeStoreCount(own, count, other) ==
    IF own = 0 /\ count = 3 THEN count
    ELSE IF (own = 1 /\ count < 2) \/ count > 3 THEN 0
    ELSE other

\* the value compute_life() stores into life_out[index]: own is life_out[index],
\* count is alive_count, other is life_in[index]
LifeStore(own, count, other) ==
    IF own = 0 /\ count = 3 THEN 1
    ELSE IF (own = 1 /\ count < 2) \/ count > 3 THEN 0
    ELSE other

(***************************************************************************)
(* One dispatch of the update phase (push_constants.step == 0).            *)
(* Every invocation reads its eight neighbours and its own cell from       *)
(* life_out[], may read life_in[index], and stores into life_out[index].   *)
(* The invocations of one dispatch are not ordered among each other, and   *)
(* they read cells other invocations store to: which of them see a store   *)
(* is a data race.  A schedule is a sequence of waves; the invocations of  *)
(* one wave all read before any of them stores, and a wave runs after the  *)
(* waves before it have stored.                                            *)
(***************************************************************************)
Schedules == {"lockstep", "by_row"}

\* the waves of a dispatch: one wave of all invocations, or one wave per row
Waves(sched, groups, dims) ==
    IF sched = "lockstep"
    THEN << CoveredIndices(groups, dims) >>
    ELSE [ r \in 1 .. (groups[2] * LocalSize) |->
             { i \in CoveredIndices(groups, dims) : PosOf(i, dims)[2] = r - 1 } ]

\* one wave of compute_life(): in is life_in[], st.out is life_out[],
\* st.count collects the alive_count each invocation computed
RunWave(wave, in, st, dims, oob) ==
    LET cnt == [ i \in wave |-> AliveCount(st.out, PosOf(i, dims), dims, oob) ]
    IN  [ out   |-> [ i \in DOMAIN st.out |->
                        IF i \in wave
                        THEN LifeStore(st.out[i], cnt[i], in[i])
                        ELSE st.out[i] ],
          count |-> [ i \in DOMAIN st.count |->
                        IF i \in wave THEN cnt[i] ELSE st.count[i] ] ]

RECURSIVE RunWaves(_, _, _, _, _, _)
RunWaves(waves, k, in, st, dims, oob) ==
    IF k > Len(waves) THEN st
    ELSE RunWaves(waves, k + 1, in, RunWave(waves[k], in, st, dims, oob), dims, oob)

\* compute_life() over the whole dispatch: the new life_out[] and the counts
compute_life(in, out, groups, dims, sched, oob) ==
    RunWaves(Waves(sched, groups, dims), 1, in,
             [ out |-> out, count |-> [ i \in DOMAIN out |-> 0 - 1 ] ], dims, oob)

\* (mutation) compute_color() whose store depends on the texel already there
compute_color_toggle(out, texels, groups, dims, life_color, dead_color) ==
    LET covered == CoveredIndices(groups, dims)
    IN  [ i \in DOMAIN texels |->
            IF i \in covered
            THEN (IF out[i] = 1 /\ texels[i] # life_color THEN life_color ELSE dead_color)
            ELSE texels[i] ]

\* compute_color() over the whole dispatch: the new texels of img
compute_color(out, texels, groups, dims, life_color, dead_color) ==
    LET covered == CoveredIndices(groups, dims)
    IN  [ i \in DOMAIN texels |->
            IF i \in covered
            THEN (IF out[i] = 1 THEN life_color ELSE dead_color)
            ELSE texels[i] ]

(***************************************************************************)
(* State.                                                                  *)
(***************************************************************************)
VARIABLES
    GRID_SIZE,      \* const GRID_SIZE of main, the size every engine is built with
    life_in,        \* GameComputePipeline.life_in: a buffer handle
    life_out,       \* GameComputePipeline.life_out: a buffer handle
    out_view,       \* GameComputePipeline.out_view: an image handle
    buffers,        \* device memory: buffer handle -> cells
    images,         \* device memory: image handle -> [dims, texels]
    pc,             \* where the RedrawRequested handler stands
    subs,           \* the chain of submissions of the frame being drawn
    steps,          \* compute() calls made on the current engine
    gen0,           \* history: the two grids as rand_grid made them
    last,           \* history: the last update dispatch the device executed
    hist,           \* history: the buffers each update dispatch read and stored to
    phase,          \* history: what the device last did to the current engine
    frame,          \* history: the stages the device executed for this frame
    replaced,       \* history: the handles of the engine a Reset replaced
    failed,         \* the call whose unwrap() / expect() panicked, or NoPanic
    calls,          \* FinalRenderPass: the render() calls whose commands are in flight
    framebuffers,   \* device memory: framebuffer handle -> [render_pass, attachments]
    uniform_buffer, \* FinalRenderPass.uniform_buffer: sub-allocation -> Uniforms
    descriptor_sets \* device memory: descriptor set handle -> bindings

vars == << GRID_SIZE, life_in, life_out, out_view, buffers, images, pc, subs,
           steps, gen0, last, hist, phase, frame, replaced, failed,
           calls, framebuffers, uniform_buffer, descriptor_sets >>

engine == << life_in, life_out, out_view >>
memory == << buffers, images >>
history == << gen0, last, hist, phase, frame, replaced >>
compositor == << calls, framebuffers, uniform_buffer, descriptor_sets >>

\* the grid sizes of the model
GridSizes == {3, 8, 9}

\* the sets of alive cells rand_grid draws from in the model: none, one
\* cell, and the centre row of a 3 x 3 grid
AliveSets == { {}, { <<1, 1>> }, { <<0, 1>>, <<1, 1>>, <<2, 1>> } }

\* (mutation) rand_grid() making one cell more than size[0] * size[1]
rand_grid_extra(dims) ==
    { [ i \in 0 .. NumCells(dims) |-> IF PosOf(i, dims) \in alive THEN 1 ELSE 0 ] :
        alive \in AliveSets }

\* rand_grid(queue, size): size[0] * size[1] cells, each gen_range(0u32..=1)
rand_grid(dims) ==
    { [ i \in Indices(dims) |-> IF PosOf(i, dims) \in alive THEN 1 ELSE 0 ] :
        alive \in AliveSets }

\* a handle no live object has
Fresh(used) == CHOOSE n \in 0 .. Cardinality(used) : n \notin used

\* StorageImage::general_purpose_image_view(queue, size, ...): a new image
NewImage(dims) == [ dims |-> dims, texels |-> [ i \in Indices(dims) |-> Unwritten ] ]

\* (mutation) a new engine taking over the output image of the old one
NewKeepingImage(dims, grid_in, grid_out, live_bufs, live_imgs) ==
    LET b_in  == Fresh(live_bufs)
        b_out == Fresh(live_bufs \cup {b_in})
        view  == IF live_imgs = {} THEN 0 ELSE CHOOSE v \in live_imgs : TRUE
    IN  [ life_in  |-> b_in,
          life_out |-> b_out,
          out_view |-> view,
          buffers  |-> (b_in :> grid_in) @@ (b_out :> grid_out),
          images   |-> (view :> NewImage(dims)) ]

\* (mutation) a new engine whose life_in and life_out are one buffer
NewAliased(dims, grid_in, grid_out, live_bufs, live_imgs) ==
    LET b    == Fresh(live_bufs)
        view == Fresh(live_imgs)
    IN  [ life_in  |-> b,
          life_out |-> b,
          out_view |-> view,
          buffers  |-> (b :> grid_out),
          images   |-> (view :> NewImage(dims)) ]

\* GameComputePipeline::new(context, size): the fields of the new engine,
\* made while the buffers live_bufs and the images live_imgs still exist
New(dims, grid_in, grid_out, live_bufs, live_imgs) ==
    LET b_in  == Fresh(live_bufs)
        b_out == Fresh(live_bufs \cup {b_in})
        view  == Fresh(live_imgs)
    IN  [ life_in  |-> b_in,
          life_out |-> b_out,
          out_view |-> view,
          buffers  |-> (b_in :> grid_in) @@ (b_out :> grid_out),
          images   |-> (view :> NewImage(dims)) ]

\* history: no update dispatch executed yet; no engine replaced yet
NoUpdate == [ in_id |-> NoId ]
NoEngine == [ out_view |-> NoId ]

\* no call has panicked: the process is running
NoPanic == "none"

Init ==
    /\ GRID_SIZE \in GridSizes
    /\ \E grid_in \in rand_grid(<<GRID_SIZE, GRID_SIZE>>),
          grid_out \in rand_grid(<<GRID_SIZE, GRID_SIZE>>) :
         LET e == New(<<GRID_SIZE, GRID_SIZE>>, grid_in, grid_out, {}, {})
         IN  /\ life_in = e.life_in
             /\ life_out = e.life_out
             /\ out_view = e.out_view
             /\ buffers = e.buffers
             /\ images = e.images
             /\ gen0 = [ life_in |-> grid_in, life_out |-> grid_out ]
    /\ pc = "idle"
    /\ subs = << >>
    /\ steps = 0
    /\ last = NoUpdate
    /\ hist = << >>
    /\ phase = "new"
    /\ frame = << >>
    /\ replaced = NoEngine
    /\ failed = NoPanic
    /\ calls = << >>
    /\ framebuffers = << >>
    /\ uniform_buffer = << >>
    /\ descriptor_sets = << >>

(***************************************************************************)
(* Submissions.  A GpuFuture is the index in subs of the submission it     *)
(* stands for; 0 is a future that has already finished (the end of the     *)
(* previous frame, which present() waited for).  A submission runs on the  *)
(* device once it is flushed and the submission it was chained after has   *)
(* finished; its commands run in the order they were recorded.             *)
(***************************************************************************)
Submission(kind, after, cmds) ==
    [ kind |-> kind, after |-> after, cmds |-> cmds,
      flushed |-> FALSE, pos |-> 0, finished |-> FALSE ]

\* then_signal_fence_and_flush(): submits the future and all it is chained after
Flush(chain) == [ k \in DOMAIN chain |-> [ chain[k] EXCEPT !.flushed = TRUE ] ]

\* bindings of the compute shader's descriptor set 0
ImgBinding == 0
LifeInBinding == 1
LifeOutBinding == 2

\* the buffer compute_life() reads the cell and neighbour states from and
\* stores to (life_out[]), and the one its last branch copies from (life_in[])
UpdateTarget(set) == set[LifeOutBinding]
UpdateOther(set) == set[LifeInBinding]

\* (mutation) compute_color() reading life_in[] instead
ColourSourceLifeIn(set) == set[LifeInBinding]

\* the buffer compute_color() reads the cell states from (life_out[])
ColourSource(set) == set[LifeOutBinding]

\* dispatch(builder, life_color, dead_color, step): the command it records
dispatch(view, in, out, dims, life_color, dead_color, step) ==
    [ op     |-> "dispatch",
      set    |-> (ImgBinding :> view) @@ (LifeInBinding :> in) @@ (LifeOutBinding :> out),
      push   |-> [ life_color |-> life_color, dead_color |-> dead_color, step |-> step ],
      groups |-> GroupCounts(dims) ]

\* (mutation) compute() recording the update only
ComputeCommandsUpdateOnly(view, in, out, dims, life_color, dead_color) ==
    << dispatch(view, in, out, dims, life_color, dead_color, 0) >>

\* (mutation) compute() recording the update twice before the colouring
ComputeCommandsTwice(view, in, out, dims, life_color, dead_color) ==
    << dispatch(view, in, out, dims, life_color, dead_color, 0),
       dispatch(view, in, out, dims, life_color, dead_color, 0),
       dispatch(view, in, out, dims, life_color, dead_color, 1) >>

\* the command buffer compute() builds: the update, then the colouring
ComputeCommands(view, in, out, dims, life_color, dead_color) ==
    << dispatch(view, in, out, dims, life_color, dead_color, 0),
       dispatch(view, in, out, dims, life_color, dead_color, 1) >>

\* the command buffer render() builds, sampling viewport_view
RenderCommands(viewport_view) ==
    << [ op |-> "render_pass", viewport_view |-> viewport_view ] >>

\* (mutation) compute() executing after a future that has already finished
ComputeBeforeNow(chain) == 0

\* the future main hands to compute(): before_pipeline_future
ComputeBefore(chain) == Len(chain)

\* (mutation) render() handed the acquire future instead
RenderBeforeAcquire(chain) == 1

\* the future main hands to render(): after_compute_future
RenderBefore(chain) == Len(chain)

\* the future main hands to present(): after_gui_future
PresentBefore(chain) == Len(chain)

(***************************************************************************)
(* The RedrawRequested handler, step by step.                              *)
(***************************************************************************)
\* the immediate-mode ui; clicked: the Reset button was clicked this frame
Ui ==
    /\ pc = "idle"
    /\ \E clicked \in BOOLEAN :
        /\ clicked \/ steps < MaxSteps
        /\ IF clicked
           THEN \E grid_in \in rand_grid(<<GRID_SIZE, GRID_SIZE>>),
                   grid_out \in rand_grid(<<GRID_SIZE, GRID_SIZE>>) :
                  LET e == New(<<GRID_SIZE, GRID_SIZE>>, grid_in, grid_out,
                               DOMAIN buffers, DOMAIN images)
                  IN  /\ life_in' = e.life_in
                      /\ life_out' = e.life_out
                      /\ out_view' = e.out_view
                      /\ buffers' = e.buffers
                      /\ images' = e.images
                      /\ gen0' = [ life_in |-> grid_in, life_out |-> grid_out ]
                      /\ steps' = 0
                      /\ last' = NoUpdate
                      /\ hist' = << >>
                      /\ phase' = "new"
                      /\ replaced' = [ grids |-> { life_in, life_out },
                                       out_view |-> out_view,
                                       dims |-> images[out_view].dims ]
           ELSE UNCHANGED << engine, memory, steps, gen0, last, hist, phase, replaced >>
    /\ pc' = "acquire"
    /\ frame' = << >>
    /\ UNCHANGED << GRID_SIZE, failed, compositor, subs >>

\* window_renderer.acquire(): the future of the next swapchain image
Acquire ==
    /\ pc = "acquire"
    /\ subs' = << [ Submission("acquire", 0, << >>) EXCEPT !.flushed = TRUE ] >>
    /\ pc' = "compute"
    /\ UNCHANGED << GRID_SIZE, failed, compositor, engine, memory, steps, history >>

\* game_compute_pipeline.compute(before_pipeline_future, red, black)
Compute ==
    /\ pc = "compute"
    /\ steps < MaxSteps
    /\ LET cmds == ComputeCommands(out_view, life_in, life_out,
                                   images[out_view].dims, LifeColor, DeadColor)
       IN  subs' = Flush(Append(subs, Submission("compute", ComputeBefore(subs), cmds)))
    /\ life_in' = life_out
    /\ life_out' = life_in
    /\ steps' = steps + 1
    /\ pc' = "render"
    /\ UNCHANGED << GRID_SIZE, failed, compositor, out_view, memory, history >>

\* final_render_pass.render(after_compute_future, ..., game_compute_pipeline.view(), ...)
Render ==
    /\ pc = "render"
    /\ subs' = Append(subs, Submission("render", RenderBefore(subs), RenderCommands(out_view)))
    /\ pc' = "present"
    /\ UNCHANGED << GRID_SIZE, failed, compositor, engine, memory, steps, history >>

\* window_renderer.present(after_gui_future, true): present, flush ...
Present ==
    /\ pc = "present"
    /\ subs' = Flush(Append(subs, Submission("present", PresentBefore(subs), << >>)))
    /\ pc' = "wait"
    /\ UNCHANGED << GRID_SIZE, failed, compositor, engine, memory, steps, history >>

\* ... and wait for the fence: the frame's submissions have all finished
Wait ==
    /\ pc = "wait"
    /\ \A k \in DOMAIN subs : subs[k].finished
    /\ subs' = << >>
    /\ pc' = "idle"
    /\ UNCHANGED << GRID_SIZE, failed, compositor, engine, memory, steps, history >>

(***************************************************************************)
(* Failures.  Every fallible call of new(), compute() and render(), and    *)
(* acquire() in main, is followed by unwrap() or expect(): an Err panics   *)
(* the thread of the event loop, which ends the process.                   *)
(***************************************************************************)
\* the call of the handler that can fail at each position of the handler;
\* at "idle" it is GameComputePipeline::new() of the Reset button
FallibleCalls ==
    [ idle |-> "new", acquire |-> "acquire", compute |-> "compute", render |-> "render" ]

\* (mutation) a failure abandons the frame and the next redraw tries again
unwrap_retry == "idle"

\* where the handler stands after unwrap() / expect() of an Err: it panicked
unwrap_failed == "panicked"

\* a fallible call returns Err: nothing more of the handler runs, and the
\* submissions of the frame are dropped with the process
Panic ==
    /\ pc \in DOMAIN FallibleCalls
    /\ failed' = FallibleCalls[pc]
    /\ pc' = unwrap_failed
    /\ subs' = << >>
    /\ UNCHANGED << GRID_SIZE, compositor, engine, memory, steps, history >>

(***************************************************************************)
(* The device.                                                             *)
(***************************************************************************)
Runnable(k) ==
    /\ subs[k].flushed
    /\ ~subs[k].finished
    /\ IF subs[k].after = 0 THEN TRUE ELSE subs[subs[k].after].finished

NextCommand(k) == subs[k].cmds[subs[k].pos + 1]

\* the submission k with its next command executed
Advance(k) ==
    [ subs EXCEPT ![k].pos = @ + 1,
                  ![k].finished = (subs[k].pos + 1 >= Len(subs[k].cmds)) ]

\* a submission without commands: the acquire semaphore, the present
GpuSignal(k) ==
    /\ Runnable(k)
    /\ subs[k].cmds = << >>
    /\ subs' = [ subs EXCEPT ![k].finished = TRUE ]
    /\ frame' = Append(frame, subs[k].kind)
    /\ UNCHANGED << GRID_SIZE, failed, compositor, engine, memory, pc, steps, gen0, last, hist, phase, replaced >>

\* main() of the shader with push_constants.step == 0: compute_life()
GpuUpdate(k) ==
    /\ Runnable(k)
    /\ subs[k].cmds # << >>
    /\ NextCommand(k).op = "dispatch"
    /\ NextCommand(k).push.step = 0
    /\ \E sched \in Schedules, oob \in OobValues :
         LET c    == NextCommand(k)
             dims == images[c.set[ImgBinding]].dims
             in   == buffers[UpdateOther(c.set)]
             out  == buffers[UpdateTarget(c.set)]
             res  == compute_life(in, out, c.groups, dims, sched, oob)
         IN  /\ buffers' = [ buffers EXCEPT ![UpdateTarget(c.set)] = res.out ]
             /\ last' = [ in_id |-> UpdateOther(c.set),
                          out_id |-> UpdateTarget(c.set),
                          pre_in |-> in, pre_out |-> out,
                          count |-> res.count,
                          groups |-> c.groups, dims |-> dims,
                          sched |-> sched, oob |-> oob ]
             /\ hist' = Append(hist, [ read |-> UpdateTarget(c.set),
                                       stored |-> UpdateTarget(c.set) ])
    /\ subs' = Advance(k)
    /\ phase' = "updated"
    /\ frame' = Append(frame, "update")
    /\ UNCHANGED << GRID_SIZE, failed, compositor, engine, images, pc, steps, gen0, replaced >>

\* main() of the shader with push_constants.step != 0: compute_color()
GpuColour(k) ==
    /\ Runnable(k)
    /\ subs[k].cmds # << >>
    /\ NextCommand(k).op = "dispatch"
    /\ NextCommand(k).push.step # 0
    /\ LET c    == NextCommand(k)
           img  == c.set[ImgBinding]
           dims == images[img].dims
       IN  images' = [ images EXCEPT ![img].texels =
                         compute_color(buffers[ColourSource(c.set)], @, c.groups, dims,
                                       c.push.life_color, c.push.dead_color) ]
    /\ subs' = Advance(k)
    /\ phase' = "coloured"
    /\ frame' = Append(frame, "colour")
    /\ UNCHANGED << GRID_SIZE, failed, compositor, engine, buffers, pc, steps, gen0, last, hist, replaced >>

\* the render pass of the compositor, sampling the simulation image
GpuRender(k) ==
    /\ Runnable(k)
    /\ subs[k].cmds # << >>
    /\ NextCommand(k).op = "render_pass"
    /\ subs' = Advance(k)
    /\ frame' = Append(frame, "render")
    /\ UNCHANGED << GRID_SIZE, failed, compositor, engine, memory, pc, steps, gen0, last, hist, phase, replaced >>

Gpu == \E k \in DOMAIN subs : GpuSignal(k) \/ GpuUpdate(k) \/ GpuColour(k) \/ GpuRender(k)

Next == Ui \/ Acquire \/ Compute \/ Render \/ Present \/ Wait \/ Panic \/ Gpu

Spec == Init /\ [][Next]_vars

(***************************************************************************)
(* The compositor, FinalRenderPass, in detail: what one render() call      *)
(* creates and records, and what the device draws from it.  A rectangle is *)
(* [left, top, right, bottom]; numbers are integers (floats of the source  *)
(* holding integral values).                                               *)
(***************************************************************************)
\* render() calls in flight at once
MaxInFlight == 2

\* context.available_rect(): the area the ui panels leave free
AvailableRects ==
    { [ left |-> 0, top |-> 0, right |-> 4, bottom |-> 3 ],
      [ left |-> 2, top |-> 0, right |-> 4, bottom |-> 3 ] }

\* window.scale_factor()
ScaleFactors == {1, 2}

\* window_renderer.swapchain_image_view(): the swapchain images
Targets == { [ image |-> 0, dims |-> <<8, 6>> ], [ image |-> 1, dims |-> <<4, 3>> ] }

\* impl Default for Uniforms: offset (0, 0), scale 1, aspect_ratio 1
DefaultUniforms == [ offset |-> <<0, 0>>, scale |-> 1, aspect_ratio |-> 1 ]

\* the viewport_transform values of the model
Transforms ==
    { DefaultUniforms,
      [ offset |-> <<0, 0>>, scale |-> 2, aspect_ratio |-> 1 ],
      [ offset |-> <<1, 0 - 1>>, scale |-> 2, aspect_ratio |-> 2 ] }

\* (mutation) calculate_viewport() forgetting the scale factor
calculate_viewport_unscaled(available_rect, scale_factor) ==
    [ origin     |-> << available_rect.left, available_rect.top >>,
      dimensions |-> << available_rect.right - available_rect.left,
                        available_rect.bottom - available_rect.top >> ]

\* fn calculate_viewport(context, scale_factor) -> Viewport
calculate_viewport(available_rect, scale_factor) ==
    LET origin     == << available_rect.left, available_rect.top >>
        dimensions == << available_rect.right - origin[1],
                         available_rect.bottom - origin[2] >>
    IN  [ origin     |-> << origin[1] * scale_factor, origin[2] * scale_factor >>,
          dimensions |-> << dimensions[1] * scale_factor, dimensions[2] * scale_factor >> ]

\* create_render_pass(): one colour attachment, two ordered subpasses on it
create_render_pass ==
    [ attachments |-> << [ name |-> "color", load |-> "Clear", store |-> "Store" ] >>,
      passes      |-> << [ color |-> << "color" >> ], [ color |-> << "color" >> ] >> ]

\* create_viewport_quad(): the vertex buffer and the index buffer
create_viewport_quad ==
    [ vertex_buffer |->
        << [ position |-> <<0 - 1, 0 - 1>>, tex_coords |-> <<0, 0>> ],
           [ position |-> <<0 - 1, 1>>,     tex_coords |-> <<0, 1>> ],
           [ position |-> <<1, 1>>,         tex_coords |-> <<1, 1>> ],
           [ position |-> <<1, 0 - 1>>,     tex_coords |-> <<1, 0>> ] >>,
      index_buffer  |-> << 0, 2, 1, 0, 3, 2 >> ]

\* (mutation) the vertex shader adding the offset before it scales
vs_main_offset_scaled(position, uniforms) ==
    << uniforms.scale * (position[1] * 1 + uniforms.offset[1]),
       uniforms.scale * (position[2] * uniforms.aspect_ratio + uniforms.offset[2]) >>

\* main() of the vertex shader: gl_Position.xy
\* scale * (position * vec2(1.0, aspect_ratio)) + offset
vs_main(position, uniforms) ==
    << uniforms.scale * (position[1] * 1) + uniforms.offset[1],
       uniforms.scale * (position[2] * uniforms.aspect_ratio) + uniforms.offset[2] >>

\* (mutation) one uniform sub-allocation written again by every call
next_rewritten(live) == 0

\* self.uniform_buffer.next(viewport_transform): a sub-allocation nothing uses
next(live) == Fresh(live)

\* create_descriptor_set(viewport_view, viewport_transform): the uniform
\* sub-allocation it takes and fills, and the descriptor set it makes
create_descriptor_set(viewport_view, viewport_transform, live) ==
    LET uniform_buffer_subbuffer == next(live.uniforms)
    IN  [ uniform  |-> uniform_buffer_subbuffer,
          contents |-> viewport_transform,
          set      |-> Fresh(live.sets),
          bindings |-> (0 :> uniform_buffer_subbuffer)
                       @@ (1 :> [ view |-> viewport_view, sampler |-> "Linear" ]) ]

\* the secondary command buffer of the viewport subpass
ViewportCommands(viewport_bounds, descriptor_set) ==
    << [ op |-> "bind_pipeline_graphics" ],
       [ op |-> "set_viewport", first |-> 0, viewports |-> << viewport_bounds >> ],
       [ op |-> "bind_vertex_buffers" ],
       [ op |-> "bind_index_buffer" ],
       [ op |-> "bind_descriptor_sets", set |-> descriptor_set ],
       [ op |-> "draw_indexed", index_count |-> Len(create_viewport_quad.index_buffer) ] >>

\* gui.draw_on_subpass_image(image_dimensions): the overlay's command buffer
draw_on_subpass_image(image_dimensions) ==
    << [ op |-> "gui", dimensions |-> image_dimensions ] >>

\* (mutation) the overlay's commands executed before the quad is drawn
PrimaryCommandsGuiFirst(framebuffer, viewport_cb, gui_cb) ==
    << [ op |-> "begin_render_pass", framebuffer |-> framebuffer,
         clear_values |-> << <<0, 0, 0, 1>> >> ],
       [ op |-> "execute_commands", subpass |-> 0, cb |-> gui_cb ],
       [ op |-> "next_subpass" ],
       [ op |-> "execute_commands", subpass |-> 1, cb |-> viewport_cb ],
       [ op |-> "end_render_pass" ] >>

\* the primary command buffer render() builds
PrimaryCommands(framebuffer, viewport_cb, gui_cb) ==
    << [ op |-> "begin_render_pass", framebuffer |-> framebuffer,
         clear_values |-> << <<0, 0, 0, 1>> >> ],
       [ op |-> "execute_commands", subpass |-> 0, cb |-> viewport_cb ],
       [ op |-> "next_subpass" ],
       [ op |-> "execute_commands", subpass |-> 1, cb |-> gui_cb ],
       [ op |-> "end_render_pass" ] >>

\* render(before_future, target, gui, viewport_view, viewport_bounds,
\* viewport_transform): what the call creates, and the commands it submits;
\* live holds the framebuffers, sub-allocations and descriptor sets in use
render(target, viewport_view, viewport_bounds, viewport_transform, live) ==
    LET framebuffer == Fresh(live.framebuffers)
        ds == create_descriptor_set(viewport_view, viewport_transform, live)
    IN  [ framebuffer |-> framebuffer,
          attachment  |-> [ render_pass |-> create_render_pass,
                            attachments |-> << target >> ],
          descriptor  |-> ds,
          cmds        |-> PrimaryCommands(framebuffer,
                              ViewportCommands(viewport_bounds, ds.set),
                              draw_on_subpass_image(target.dims)) ]

\* the state of the simulation, which the compositor leaves alone
simulation == << GRID_SIZE, engine, memory, pc, subs, steps, history, failed >>

\* a function without the key k
Without(f, k) == [ j \in DOMAIN f \ {k} |-> f[j] ]

\* final_render_pass.render(.., swapchain_image_view(), gui, view(),
\* viewport_bounds, viewport_transform) with the viewport main calculates
Composite ==
    /\ Len(calls) < MaxInFlight
    /\ \E available_rect \in AvailableRects, scale_factor \in ScaleFactors,
          target \in Targets, viewport_transform \in Transforms :
         LET viewport_bounds == calculate_viewport(available_rect, scale_factor)
             live == [ framebuffers |-> DOMAIN framebuffers,
                       uniforms     |-> DOMAIN uniform_buffer,
                       sets         |-> DOMAIN descriptor_sets ]
             r == render(target, out_view, viewport_bounds, viewport_transform, live)
         IN  /\ framebuffers' = (r.framebuffer :> r.attachment) @@ framebuffers
             /\ uniform_buffer' =
                    (r.descriptor.uniform :> r.descriptor.contents) @@ uniform_buffer
             /\ descriptor_sets' =
                    (r.descriptor.set :> r.descriptor.bindings) @@ descriptor_sets
             /\ calls' = Append(calls,
                    [ args |-> [ target |-> target,
                                 available_rect |-> available_rect,
                                 scale_factor |-> scale_factor,
                                 viewport_view |-> out_view,
                                 viewport_transform |-> viewport_transform ],
                      framebuffer |-> r.framebuffer,
                      uniform |-> r.descriptor.uniform,
                      set |-> r.descriptor.set,
                      cmds |-> r.cmds,
                      pos |-> 0, subpass |-> NoId, drawn |-> << >> ])
    /\ UNCHANGED simulation

\* the command of op in the secondary command buffer cb
CommandOf(cb, op) == cb[CHOOSE n \in DOMAIN cb : cb[n].op = op]

\* what the device draws executing the secondary command buffer cb in subpass
ExecuteSecondary(cb, subpass) ==
    IF cb[1].op = "gui"
    THEN [ op |-> "gui", subpass |-> subpass, dimensions |-> cb[1].dimensions ]
    ELSE LET set  == descriptor_sets[CommandOf(cb, "bind_descriptor_sets").set]
             quad == create_viewport_quad
         IN  [ op |-> "quad", subpass |-> subpass,
               viewport |-> CommandOf(cb, "set_viewport").viewports[1],
               texture |-> set[1].view,
               positions |->
                   [ n \in 1 .. CommandOf(cb, "draw_indexed").index_count |->
                       vs_main(quad.vertex_buffer[quad.index_buffer[n] + 1].position,
                               uniform_buffer[set[0]]) ] ]

\* the call c with the next command of its primary command buffer executed
ExecuteCommand(c) ==
    LET cmd == c.cmds[c.pos + 1]
        c1  == [ c EXCEPT !.pos = @ + 1 ]
    IN  CASE cmd.op = "begin_render_pass" ->
                [ c1 EXCEPT !.subpass = 0,
                            !.drawn = Append(@,
                                [ op |-> "clear", subpass |-> 0,
                                  image |-> framebuffers[cmd.framebuffer].attachments[1],
                                  color |-> cmd.clear_values[1] ]) ]
          [] cmd.op = "execute_commands" ->
                [ c1 EXCEPT !.drawn = Append(@, ExecuteSecondary(cmd.cb, c.subpass)) ]
          [] cmd.op = "next_subpass" ->
                [ c1 EXCEPT !.subpass = @ + 1 ]

\* the device executing the next command of the earliest call in flight;
\* a call's commands run after those of the calls before it
Execute ==
    /\ calls # << >>
    /\ calls[1].cmds[calls[1].pos + 1].op # "end_render_pass"
    /\ calls' = [ calls EXCEPT ![1] = ExecuteCommand(calls[1]) ]
    /\ UNCHANGED << framebuffers, uniform_buffer, descriptor_sets >>
    /\ UNCHANGED simulation

\* the device ending the render pass of the earliest call: the call has
\* finished, its future is dropped and with it what the call created
Finish ==
    /\ calls # << >>
    /\ calls[1].cmds[calls[1].pos + 1].op = "end_render_pass"
    /\ calls' = Tail(calls)
    /\ framebuffers' = Without(framebuffers, calls[1].framebuffer)
    /\ uniform_buffer' = Without(uniform_buffer, calls[1].uniform)
    /\ descriptor_sets' = Without(descriptor_sets, calls[1].set)
    /\ UNCHANGED simulation

\* the compositor on its own, over an engine that is not stepped
InitRender ==
    /\ Init
    /\ GRID_SIZE = 8
    /\ gen0.life_in = gen0.life_out
    /\ \A i \in DOMAIN gen0.life_in : gen0.life_in[i] = 0

NextRender == Composite \/ Execute \/ Finish

SpecRender == InitRender /\ [][NextRender]_vars

(***************************************************************************)
(* Reference definitions the properties are stated with.                   *)
(***************************************************************************)
\* the standard rule: alive iff count == 3, or count == 2 and alive before
LifeRule(own, count) == IF count = 3 \/ (count = 2 /\ own = 1) THEN 1 ELSE 0

\* the alive neighbours of pos in grid g, positions outside the rectangle dead
TrueCount(g, pos, dims) ==
    Cardinality({ k \in 1 .. 8 :
        /\ InRect(Plus(pos, Offsets[k]), dims)
        /\ g[get_index(Plus(pos, Offsets[k]), dims)] = 1 })

NonBoundary(pos, dims) ==
    /\ 0 < pos[1] /\ pos[1] < Width(dims) - 1
    /\ 0 < pos[2] /\ pos[2] < Height(dims) - 1

\* an update dispatch has executed on the current engine
Updated == phase \in {"updated", "coloured"}

\* the cells of buffer id when the last update dispatch began
Before(id) == IF id = last.in_id THEN last.pre_in ELSE last.pre_out

\* the cells the last update dispatch owned, and the grid it left
LastCovered == CoveredIndices(last.groups, last.dims)
LastStored == buffers[last.out_id]

\* a grid of dims with exactly the cells of alive alive
GridOf(alive, dims) ==
    [ i \in Indices(dims) |-> IF PosOf(i, dims) \in alive THEN 1 ELSE 0 ]

(***************************************************************************)
(* Properties.                                                             *)
(***************************************************************************)
\* C1 (rule correctness): in every step that follows another, the state the
\* update phase stores for a non-boundary cell is the standard rule applied
\* to the cell's state and its 8-neighbour alive count in the current
\* generation, the grid the previous step stored and coloured.
C1_RuleCorrectness ==
    (Updated /\ Len(hist) >= 2) =>
        LET cur == Before(hist[Len(hist) - 1].stored)
        IN  \A i \in LastCovered :
                NonBoundary(PosOf(i, last.dims), last.dims) =>
                    LastStored[i] =
                        LifeRule(cur[i], TrueCount(cur, PosOf(i, last.dims), last.dims))

\* C2 (read/write separation): the buffer the update phase reads the cell
\* and neighbour states from is not the buffer that phase stores to, and no
\* cell of the buffer it reads is changed by the pass.
C2_ReadWriteSeparation ==
    Updated =>
        /\ hist[Len(hist)].read # hist[Len(hist)].stored
        /\ buffers[hist[Len(hist)].read] = Before(hist[Len(hist)].read)

\* C3 (double-buffer correctness): the grid the update phase of the next
\* call reads is the grid the update phase of this call stored to, and is
\* not the grid this call read.
C3_DoubleBuffer ==
    \A n \in 2 .. Len(hist) :
        /\ hist[n].read = hist[n - 1].stored
        /\ hist[n].read # hist[n - 1].read

\* C4 (phase ordering): every compute submission holds the update dispatch
\* and then the colouring dispatch, both on the same buffers; and once the
\* colouring of a step has executed, each covered pixel is the live colour
\* iff its cell is alive in the grid this step's update stored.
C4_PhaseOrdering ==
    /\ \A k \in DOMAIN subs :
          subs[k].kind = "compute" =>
              /\ Len(subs[k].cmds) = 2
              /\ subs[k].cmds[1].push.step = 0
              /\ subs[k].cmds[2].push.step = 1
              /\ subs[k].cmds[2].set = subs[k].cmds[1].set
    /\ phase = "coloured" =>
          /\ last # NoUpdate
          /\ \A i \in LastCovered :
                (images[out_view].texels[i] = LifeColor) <=> (LastStored[i] = 1)

\* C4 witness: a colouring has executed after an update that changed cells,
\* and a covered pixel shows a cell alive now that was dead before the update
C4_Witness ==
    /\ phase = "coloured"
    /\ \E i \in LastCovered :
          /\ LastStored[i] = 1
          /\ Before(last.out_id)[i] = 0
          /\ images[out_view].texels[i] = LifeColor
    /\ \E i \in LastCovered :
          /\ LastStored[i] = 0
          /\ Before(last.out_id)[i] = 1
          /\ images[out_view].texels[i] = DeadColor

\* C5 (dispatch coverage): for every engine constructed, the update and the
\* colouring of a step cover every cell of the grid: once a step has been
\* coloured, every cell was updated and every pixel was written.
C5_DispatchCoverage ==
    phase = "coloured" =>
        \A i \in Indices(last.dims) :
            /\ i \in LastCovered
            /\ images[out_view].texels[i] # Unwritten

\* C6 (blinker): on a 3 x 3 grid with exactly the centre row alive, after
\* one step exactly the centre column is alive, and after two steps exactly
\* the centre row again.
C6_Blinker ==
    LET dims == <<3, 3>>
        row  == GridOf({ <<0, 1>>, <<1, 1>>, <<2, 1>> }, dims)
        col  == GridOf({ <<1, 0>>, <<1, 1>>, <<1, 2>> }, dims)
    IN  ( /\ GRID_SIZE = 3
          /\ gen0.life_in = row
          /\ gen0.life_out = row
          /\ pc = "idle" ) =>
            /\ steps = 1 => LastStored = col
            /\ steps = 2 => LastStored = row

\* C7 (boundary policy): no neighbour read of the update phase uses an index
\* outside [0, width * height), and the alive count of a cell on the border
\* counts every position outside the rectangle as dead: with all neighbour
\* reads seeing the grid as it was before the pass, the count is the number
\* of alive neighbours inside the rectangle.
C7_BoundaryPolicy ==
    Updated =>
        \A i \in LastCovered :
            LET pos == PosOf(i, last.dims)
            IN  /\ \A k \in 1 .. 8 :
                      InBuffer(get_index(Plus(pos, Offsets[k]), last.dims), last.dims)
                /\ (last.sched = "lockstep" /\ ~NonBoundary(pos, last.dims)) =>
                      last.count[i] = TrueCount(last.pre_out, pos, last.dims)

\* the grid buffers and images the commands of submission k access
Resources(k) ==
    UNION { IF c.op = "dispatch"
            THEN { <<"image", c.set[ImgBinding]>>,
                   <<"buffer", c.set[LifeInBinding]>>,
                   <<"buffer", c.set[LifeOutBinding]>> }
            ELSE { <<"image", c.viewport_view>> } :
            c \in { subs[k].cmds[j] : j \in DOMAIN subs[k].cmds } }

\* submitted to the device and not finished
InFlight(k) == subs[k].flushed /\ ~subs[k].finished

\* C8 (exclusive in-flight access): of the in-flight submissions that access
\* a grid buffer or the output image, at most one can be executing at any
\* time, the others waiting for it through the chain; and at most one
\* step's compute work is in flight.
C8_ExclusiveAccess ==
    /\ \A k, j \in DOMAIN subs :
          (k # j /\ Runnable(k) /\ Runnable(j)) => Resources(k) \cap Resources(j) = {}
    /\ Cardinality({ k \in DOMAIN subs : subs[k].kind = "compute" /\ InFlight(k) }) <= 1

\* C8 witness: the compute work is executing while the composite that
\* samples its output image is in flight behind it
C8_Witness ==
    \E k, j \in DOMAIN subs :
        /\ subs[k].kind = "compute" /\ InFlight(k) /\ subs[k].pos = 1
        /\ subs[j].kind = "render" /\ InFlight(j)
        /\ Resources(k) \cap Resources(j) # {}

\* the stages of a frame in the order the device must execute them
FrameOrder == << "acquire", "update", "colour", "render", "present" >>

\* C9 (per-frame dependency chain): the submissions of a frame are acquire,
\* compute, render, present, each chained after the one before it, and the
\* device executes the stages in that order: the render pass never runs
\* before both dispatches of the frame's step.
C9_FrameChain ==
    /\ \A k \in DOMAIN subs :
          /\ subs[k].kind = << "acquire", "compute", "render", "present" >>[k]
          /\ subs[k].after = k - 1
    /\ Len(frame) <= Len(FrameOrder)
    /\ frame = SubSeq(FrameOrder, 1, Len(frame))

\* C9 witness: a frame whose five stages have all executed
C9_Witness == frame = FrameOrder /\ pc = "wait"

\* C10 as stated (reset keeps the output image): after a reset, view()
\* returns the image it returned before the reset.
C10_ResetKeepsImage ==
    replaced # NoEngine => out_view = replaced.out_view

\* C10 amended (reset reallocates the output image too): after a reset the
\* two grids and the output image are all newly allocated, none is an
\* object of the engine replaced, and the new image has the dimensions of
\* the old one.
C10_ResetReallocates ==
    replaced # NoEngine =>
        /\ out_view # replaced.out_view
        /\ { life_in, life_out } \cap replaced.grids = {}
        /\ images[out_view].dims = replaced.dims

\* C10 witness: an engine made by a reset has run a step
C10_Witness == replaced # NoEngine /\ phase = "coloured" /\ pc = "idle"

\* C11 (reset): after a reset, before the new engine has run a step, both
\* grids are newly allocated buffers of width * height cells as rand_grid
\* made them, every cell 0 or 1, and the grid and the output image have the
\* dimensions they had before the reset.
C11_Reset ==
    (replaced # NoEngine /\ steps = 0) =>
        LET dims == images[out_view].dims
        IN  /\ dims = replaced.dims
            /\ dims = << GRID_SIZE, GRID_SIZE >>
            /\ { life_in, life_out } \cap replaced.grids = {}
            /\ life_in # life_out
            /\ buffers[life_in] = gen0.life_in
            /\ buffers[life_out] = gen0.life_out
            /\ \A b \in { life_in, life_out } :
                  /\ DOMAIN buffers[b] = Indices(dims)
                  /\ \A i \in Indices(dims) : buffers[b][i] \in {0, 1}

\* C11 witness: a reset has given the two grids different contents, one of
\* them with alive and with dead cells
C11_Witness ==
    /\ replaced # NoEngine /\ steps = 0 /\ pc = "acquire"
    /\ buffers[life_in] # buffers[life_out]
    /\ \E i, j \in Indices(images[out_view].dims) :
          buffers[life_out][i] = 1 /\ buffers[life_out][j] = 0

\* the elements of a sequence, and the elements with a given op
Range(s) == { s[n] : n \in DOMAIN s }
WithOp(s, op) == { n \in DOMAIN s : s[n].op = op }

\* the available rectangle of call c scaled by the display scale factor
ScaledRect(c) ==
    LET r == c.args.available_rect
        f == c.args.scale_factor
    IN  [ origin     |-> << r.left * f, r.top * f >>,
          dimensions |-> << (r.right - r.left) * f, (r.bottom - r.top) * f >> ]

\* C12 (viewport clamp): in every render() call the commands of the first
\* subpass set exactly one viewport, the available rectangle scaled by the
\* scale factor; no other command of the call sets a viewport; the overlay's
\* commands are made for the full dimensions of the target; and the device
\* draws the quad with that viewport and the overlay with the full target.
C12_ViewportClamp ==
    \A k \in DOMAIN calls :
        LET c   == calls[k]
            vcb == c.cmds[2].cb
            gcb == c.cmds[4].cb
        IN  /\ c.cmds[2].subpass = 0
            /\ Cardinality(WithOp(vcb, "set_viewport")) = 1
            /\ \A n \in WithOp(vcb, "set_viewport") :
                  /\ vcb[n].viewports = << ScaledRect(c) >>
                  /\ \A d \in WithOp(vcb, "draw_indexed") : n < d
            /\ WithOp(c.cmds, "set_viewport") = {}
            /\ WithOp(gcb, "set_viewport") = {}
            /\ c.cmds[4].subpass = 1
            /\ \A n \in DOMAIN gcb : gcb[n].dimensions = c.args.target.dims
            /\ \A n \in DOMAIN c.drawn :
                  /\ c.drawn[n].op = "quad" =>
                        c.drawn[n].subpass = 0 /\ c.drawn[n].viewport = ScaledRect(c)
                  /\ c.drawn[n].op = "gui" =>
                        c.drawn[n].subpass = 1 /\ c.drawn[n].dimensions = c.args.target.dims

\* C12 witness: both subpasses of a call have been drawn, the available
\* rectangle being narrower than the target and the scale factor not 1
C12_Witness ==
    \E k \in DOMAIN calls :
        LET c == calls[k]
        IN  /\ c.args.scale_factor = 2
            /\ ScaledRect(c).origin[1] > 0
            /\ ScaledRect(c).dimensions[1] < c.args.target.dims[1]
            /\ \E n \in DOMAIN c.drawn : c.drawn[n].op = "quad"
            /\ \E n \in DOMAIN c.drawn : c.drawn[n].op = "gui"

\* the ops and subpasses of what the device must draw for one call, in order
DrawOrder == << <<"clear", 0>>, <<"quad", 0>>, <<"gui", 1>> >>

\* C13 (subpass ordering): every render() call records one render pass:
\* begin_render_pass on the framebuffer of the single colour attachment,
\* cleared on load, then the viewport subpass with the quad draw, then
\* next_subpass and the overlay's commands as the overlay made them, then
\* end_render_pass as the last command; and the device draws the clear, the
\* quad in subpass 0 and the overlay in subpass 1 in this order.
C13_SubpassOrdering ==
    \A k \in DOMAIN calls :
        LET c  == calls[k]
            rp == framebuffers[c.framebuffer].render_pass
        IN  /\ Len(rp.attachments) = 1
            /\ rp.attachments[1].load = "Clear"
            /\ Len(rp.passes) = 2
            /\ \A n \in DOMAIN rp.passes : rp.passes[n].color = << rp.attachments[1].name >>
            /\ WithOp(c.cmds, "begin_render_pass") = {1}
            /\ c.cmds[1].framebuffer = c.framebuffer
            /\ WithOp(c.cmds, "execute_commands") = {2, 4}
            /\ WithOp(c.cmds[2].cb, "draw_indexed") # {}
            /\ WithOp(c.cmds, "next_subpass") = {3}
            /\ c.cmds[4].cb = draw_on_subpass_image(c.args.target.dims)
            /\ WithOp(c.cmds, "end_render_pass") = {Len(c.cmds)}
            /\ Len(c.drawn) <= Len(DrawOrder)
            /\ \A n \in DOMAIN c.drawn :
                  << c.drawn[n].op, c.drawn[n].subpass >> = DrawOrder[n]

\* C13 witness: the device has drawn the clear, the quad and the overlay
C13_Witness ==
    \E k \in DOMAIN calls :
        /\ Len(calls[k].drawn) = Len(DrawOrder)
        /\ calls[k].subpass = 1

\* C14 (fresh per-frame resources): every render() call in flight has a
\* framebuffer of its own bound to its target, a uniform sub-allocation of
\* its own holding its transform, and a descriptor set of its own binding
\* that sub-allocation and the image it was given; no two calls in flight
\* share one of the three.
C14_FreshResources ==
    /\ \A k \in DOMAIN calls :
          LET c == calls[k]
          IN  /\ c.framebuffer \in DOMAIN framebuffers
              /\ framebuffers[c.framebuffer].attachments = << c.args.target >>
              /\ c.uniform \in DOMAIN uniform_buffer
              /\ uniform_buffer[c.uniform] = c.args.viewport_transform
              /\ c.set \in DOMAIN descriptor_sets
              /\ descriptor_sets[c.set][0] = c.uniform
              /\ descriptor_sets[c.set][1].view = c.args.viewport_view
    /\ \A k, j \in DOMAIN calls :
          k # j => /\ calls[k].framebuffer # calls[j].framebuffer
                   /\ calls[k].uniform # calls[j].uniform
                   /\ calls[k].set # calls[j].set

\* C14 witness: a call was made while the device was drawing an earlier
\* call with another transform and another target
C14_Witness ==
    /\ Len(calls) >= 2
    /\ calls[1].pos >= 2
    /\ calls[2].args.viewport_transform # calls[1].args.viewport_transform
    /\ calls[2].args.target # calls[1].args.target

\* the corners of the square [-r, r] x [-r, r]
Corners(r) == { <<0 - r, 0 - r>>, <<0 - r, r>>, <<r, r>>, <<r, 0 - r>> }

\* C16 (transform composition): the quad the device draws has every corner
\* p of the vertex buffer at scale * (p * (1, aspect_ratio)) + offset; with
\* offset (0, 0), scale 1 and aspect_ratio 1 the corners are those of
\* [-1, 1] x [-1, 1], and with scale 2 those of [-2, 2] x [-2, 2].
C16_TransformComposition ==
    \A k \in DOMAIN calls :
        \A n \in DOMAIN calls[k].drawn :
            LET d == calls[k].drawn[n]
                u == calls[k].args.viewport_transform
                q == create_viewport_quad
            IN  d.op = "quad" =>
                  /\ DOMAIN d.positions = DOMAIN q.index_buffer
                  /\ \A v \in DOMAIN d.positions :
                        LET p == q.vertex_buffer[q.index_buffer[v] + 1].position
                        IN  d.positions[v] =
                              << u.scale * p[1] + u.offset[1],
                                 u.scale * p[2] * u.aspect_ratio + u.offset[2] >>
                  /\ (u.offset = <<0, 0>> /\ u.aspect_ratio = 1 /\ u.scale \in {1, 2}) =>
                        Range(d.positions) = Corners(u.scale)

\* C16 witness: a quad drawn with offset (0, 0), scale 2, aspect_ratio 1
\* has its corners on those of [-2, 2] x [-2, 2]
C16_Witness ==
    \E k \in DOMAIN calls :
        \E n \in DOMAIN calls[k].drawn :
            /\ calls[k].drawn[n].op = "quad"
            /\ calls[k].args.viewport_transform.scale = 2
            /\ calls[k].args.viewport_transform.offset = <<0, 0>>
            /\ Range(calls[k].drawn[n].positions) = Corners(2)

\* C15 (idempotent colour mapping): whenever the device executes a colouring
\* dispatch, the dispatch leaves both grids as they were, and running the
\* same dispatch once more on the image it produced, with the same colours
\* and the unchanged grid, gives that image again, texel for texel.
C15_IdempotentColour ==
    [][ \A k \in DOMAIN subs :
          ( /\ k \in DOMAIN subs'
            /\ subs[k].kind = "compute"
            /\ subs[k].pos = 1
            /\ subs'[k].pos = 2 ) =>
              LET c   == subs[k].cmds[2]
                  img == c.set[ImgBinding]
              IN  /\ buffers' = buffers
                  /\ compute_color(buffers'[ColourSource(c.set)], images'[img].texels,
                                   c.groups, images'[img].dims,
                                   c.push.life_color, c.push.dead_color)
                        = images'[img].texels ]_vars

\* C15 witness: a colouring has executed over an image an earlier step had
\* coloured, and the image holds both colours
C15_Witness ==
    /\ phase = "coloured"
    /\ Len(hist) >= 2
    /\ \E i, j \in LastCovered :
          /\ images[out_view].texels[i] = LifeColor
          /\ images[out_view].texels[j] = DeadColor

\* C17 (failures are terminal): a step in which a call fails leaves the
\* handler panicked, with no submission of the frame left and no step
\* counted for the failed call; and once a call has failed nothing happens
\* any more: no step is run, no frame is presented, nothing is retried.
C17_FailuresTerminal ==
    [][ /\ failed = NoPanic
        /\ failed' # NoPanic =>
              /\ pc' = "panicked"
              /\ subs' = << >>
              /\ steps' = steps
              /\ engine' = engine ]_vars

\* C17 witness: render() has failed after the frame's step was submitted
C17_Witness ==
    /\ failed = "render"
    /\ pc = "panicked"
    /\ steps >= 1

\* the render pass of submission k has executed
Sampled(k) == subs[k].kind = "render" /\ subs[k].pos >= 1

\* C18 (output image validity at sampling time): whenever the render pass
\* of a frame has executed, the image it sampled is the output image of the
\* current engine, the one the frame's compute submission was recorded on;
\* that submission had finished, the colouring being the last thing the
\* device did to the engine; every covered texel shows the cell the frame's
\* update stored; and on a grid of whole work groups no texel is unwritten.
C18_ImageValidity ==
    \A k \in DOMAIN subs :
        Sampled(k) =>
            LET img == subs[k].cmds[1].viewport_view
            IN  /\ img = out_view
                /\ \E j \in DOMAIN subs :
                      /\ subs[j].kind = "compute"
                      /\ subs[j].finished
                      /\ subs[j].cmds[1].set[ImgBinding] = img
                      /\ { subs[j].cmds[1].set[LifeInBinding],
                           subs[j].cmds[1].set[LifeOutBinding] } = { life_in, life_out }
                /\ phase = "coloured"
                /\ steps >= 1
                /\ Len(hist) = steps
                /\ \A i \in LastCovered :
                      (images[img].texels[i] = LifeColor) <=> (LastStored[i] = 1)
                /\ \A i \in LastCovered : images[img].texels[i] \in { LifeColor, DeadColor }
                /\ (GRID_SIZE % LocalSize = 0) =>
                      \A i \in Indices(images[img].dims) : images[img].texels[i] # Unwritten

\* C18 witness: the render pass of the first frame after a reset has
\* executed, sampling an image with live and dead texels
C18_Witness ==
    /\ replaced # NoEngine
    /\ steps = 1
    /\ \E k \in DOMAIN subs : Sampled(k)
    /\ \E i, j \in Indices(images[out_view].dims) :
          /\ images[out_view].texels[i] = LifeColor
          /\ images[out_view].texels[j] = DeadColor

\* the compute submissions of the frame being drawn
ComputeSubs == { k \in DOMAIN subs : subs[k].kind = "compute" }

\* C19 (one generation per invocation): every compute submission holds
\* exactly one update dispatch and, after it, exactly one colouring
\* dispatch; a frame holds at most one compute submission, and exactly one
\* once compute() has returned; every call swaps the roles of the two
\* buffers once (new() allocates life_in before life_out, so the handle
\* order tells an even from an odd number of swaps); and the device has
\* applied as many updates as compute() was called, less the one still in
\* flight: after n whole frames without reset, exactly n.
C19_OneGeneration ==
    /\ \A k \in ComputeSubs :
          /\ WithOp(subs[k].cmds, "dispatch") = DOMAIN subs[k].cmds
          /\ { n \in DOMAIN subs[k].cmds : subs[k].cmds[n].push.step = 0 } = {1}
          /\ { n \in DOMAIN subs[k].cmds : subs[k].cmds[n].push.step # 0 } = {2}
    /\ Cardinality(ComputeSubs) <= 1
    /\ pc \in { "render", "present", "wait" } => Cardinality(ComputeSubs) = 1
    /\ (life_in < life_out) <=> (steps % 2 = 0)
    /\ Len(hist) <= steps
    /\ steps <= Len(hist) + 1
    /\ pc = "idle" => Len(hist) = steps

\* C19 witness: two whole frames were drawn without reset, and two updates
\* were applied
C19_Witness ==
    /\ pc = "idle"
    /\ replaced = NoEngine
    /\ steps >= 2
    /\ Len(hist) = steps

\* C20 (order independence of the update phase): the grid the update phase
\* leaves is the one every order of its invocations leaves: whichever the
\* schedule the device ran, any other schedule run on the same two grids
\* with the same out-of-bounds reads stores the same cells.
C20_OrderIndependence ==
    Updated =>
        \A sched \in Schedules :
            compute_life(last.pre_in, last.pre_out, last.groups, last.dims,
                         sched, last.oob).out = LastStored

\* the grid the last update dispatch would have stored had life_in[] held
\* alt_in and life_out[] held alt_out when it began
StoredFrom(alt_in, alt_out) ==
    compute_life(alt_in, alt_out, last.groups, last.dims, last.sched, last.oob).out

\* C21 (scratch contents do not leak): one of the two grids of a step is the
\* current generation and the other is scratch, and the grid the update
\* stores does not depend on the scratch: either every other content of
\* life_in[] had given the same stored grid, or every other content of
\* life_out[] had.
C21_NoScratchLeak ==
    Updated =>
        \/ \A alt \in rand_grid(last.dims) : StoredFrom(alt, last.pre_out) = LastStored
        \/ \A alt \in rand_grid(last.dims) : StoredFrom(last.pre_in, alt) = LastStored

\* C22 (buffer roles): at every step of the program life_in and life_out
\* are two distinct buffers and the only two of the engine, life_in being
\* the one new() allocated first exactly after an even number of compute()
\* calls; a compute() call exchanges the two handles and allocates nothing;
\* and nothing but a compute() call or a reset changes a handle.
C22_BufferRoles ==
    [][ /\ life_in # life_out
        /\ DOMAIN buffers = { life_in, life_out }
        /\ (life_in < life_out) <=> (steps % 2 = 0)
        /\ steps' = steps + 1 =>
              /\ life_in' = life_out
              /\ life_out' = life_in
              /\ DOMAIN buffers' = DOMAIN buffers
        /\ (steps' = steps /\ replaced' = replaced) =>
              /\ << life_in', life_out' >> = << life_in, life_out >>
              /\ DOMAIN buffers' = DOMAIN buffers ]_vars

\* C22 witness: two compute() calls were made on an engine and the roles
\* are those of construction again
C22_Witness ==
    /\ steps = 2
    /\ Len(hist) = 2
    /\ life_in < life_out
    /\ hist[1].stored = life_out
    /\ hist[2].stored = life_in

\* C23 (cell values): on a grid whose dimensions are multiples of the work
\* group size, every cell of both grids is 0 or 1 in every state: after
\* construction, after a reset and after every update.
C23_CellValues ==
    (GRID_SIZE % LocalSize = 0) =>
        \A b \in { life_in, life_out } :
            \A i \in DOMAIN buffers[b] : buffers[b][i] \in {0, 1}

\* C23 witness: on an 8 x 8 grid made by a reset, an update has been born
\* and has killed cells
C23_Witness ==
    /\ GRID_SIZE % LocalSize = 0
    /\ replaced # NoEngine
    /\ Updated
    /\ \E i, j \in LastCovered :
          /\ LastStored[i] = 1 /\ last.pre_out[i] = 0
          /\ LastStored[j] = 0 /\ last.pre_out[j] = 1

====
